---- MODULE Spec2Model ----
(***************************************************************************)
(* scripts/train.py: command-line parsing, construction of environments,   *)
(* preprocessor, model and algorithm, then the training loop with logging  *)
(* and checkpointing.  The script is one sequential process; pc is its     *)
(* position, trace is the sequence of calls it made to its collaborators   *)
(* (utils, gym, torch_rl, tensorboardX), which are black boxes.            *)
(* Not modelled: the wall clock (suffix, fps, duration), the values of the   *)
(* metrics, and the model and log names, which no call order depends on.   *)
(***************************************************************************)
EXTENDS Integers, Sequences, FiniteSets

VARIABLES argv, cuda_available, pc, exc, envs, acmodel_device, algo,
          algo_envs, writer, num_frames, i, trace

vars == <<argv, cuda_available, pc, exc, envs, acmodel_device, algo,
          algo_envs, writer, num_frames, i, trace>>

(* ---------------- bounds of the model ---------------- *)

\* largest small value given to --frames on the command line
MaxFrames == 3
\* an update reports between 1 and MaxChunk units of frames
MaxChunk == 2
\* a run with a large --frames is covered in this many units
BigSteps == 3
\* largest value given to --procs on the command line
MaxProcs == 2
\* largest value given to --log-interval / --save-interval
MaxInterval == 2

(* ---------------- argument parsing (lines 16-61) ---------------- *)

SeedDefault == 1
ProcsDefault == 16
FramesDefault == 10000000
LogIntervalDefault == 1
SaveIntervalDefault == 0
\* the default announced by the help text of --frames: "10e7"
FramesHelpDefault == 100000000

\* an optional integer option: <<given, value>>
Absent == <<FALSE, 0>>
Given(v) == <<TRUE, v>>
OptValue(opt, default) == IF opt[1] THEN opt[2] ELSE default

AlgoNames == {"a2c", "ppo", "sac"}
\* --env is an opaque name handed to gym.make: one value stands for all
EnvNames == {"MiniGrid-DoorKey-5x5-v0"}

\* the option left out, or given one of the values other than its default
Option(values, default) == {Absent} \cup {Given(v) : v \in values \ {default}}

Argvs ==
    [algo : AlgoNames,
     env : EnvNames,
     seed : Option({5}, SeedDefault),
     procs : Option(-1..MaxProcs, ProcsDefault),
     frames : Option(-1..MaxFrames, FramesDefault),
     log_interval : Option({-MaxInterval} \cup 0..MaxInterval, LogIntervalDefault),
     save_interval : Option(-1..MaxInterval, SaveIntervalDefault),
     no_tb : BOOLEAN]

args_seed == OptValue(argv.seed, SeedDefault)
args_procs == OptValue(argv.procs, ProcsDefault)
args_frames == OptValue(argv.frames, FramesDefault)
args_log_interval == OptValue(argv.log_interval, LogIntervalDefault)
args_save_interval == OptValue(argv.save_interval, SaveIntervalDefault)

(* ---------------- helpers ---------------- *)

\* Python's a % b for b # 0: the result has the sign of the divisor
PyMod(a, b) == IF b > 0 THEN a % b ELSE -((-a) % (-b))

\* one call to a collaborator
Ev(op, k, n, s) == [op |-> op, i |-> k, n |-> n, s |-> s]

\* range(n)
Range(n) == 0..(n - 1)

\* what one algo.update_parameters() may report as log["num_frames"]
UpdateFrames ==
    IF args_frames <= MaxFrames
    THEN 1..MaxChunk
    ELSE {(args_frames \div BigSteps) * k : k \in 1..MaxChunk}

\* the scalars written per logged update (lines 149-161)
ScalarTags == <<"frames", "FPS", "duration", "return_", "rreturn_",
                "num_frames_", "entropy", "value", "policy_loss", "value_loss">>

ScalarValue(tag) == IF tag = "frames" THEN num_frames ELSE 0

AddScalars == [k \in 1..Len(ScalarTags) |->
                  Ev("writer.add_scalar", i, ScalarValue(ScalarTags[k]), ScalarTags[k])]

(* ---------------- initial state: the process has parsed argv ---------------- *)

Init ==
    /\ argv \in Argvs
    /\ cuda_available \in BOOLEAN
    /\ pc = "seed"
    /\ exc = "none"
    /\ envs = << >>
    /\ acmodel_device = "none"
    /\ algo = "none"
    /\ algo_envs = << >>
    /\ writer = FALSE
    /\ num_frames = 0
    /\ i = 0
    /\ trace = << >>

(* ---------------- setup (lines 63-114) ---------------- *)

\* line 65
Seed ==
    /\ pc = "seed"
    /\ trace' = Append(trace, Ev("utils.seed", 0, args_seed, ""))
    /\ pc' = "envs"
    /\ UNCHANGED <<argv, cuda_available, exc, envs, acmodel_device, algo,
                   algo_envs, writer, num_frames, i>>

\* every environment gets the global seed
EnvSeed_Same(k) == args_seed

\* the seed given to the environment built in iteration k of the for loop
EnvSeed(k) == args_seed + k

\* lines 70-73, one iteration of the for loop
MakeEnv ==
    /\ pc = "envs"
    /\ Len(envs) \in Range(args_procs)
    /\ i' = Len(envs)
    /\ trace' = trace \o <<Ev("gym.make", i', 0, argv.env),
                           Ev("env.seed", i', EnvSeed(i'), argv.env)>>
    /\ envs' = Append(envs, [name |-> argv.env, seed |-> EnvSeed(i')])
    /\ UNCHANGED <<argv, cuda_available, pc, exc, acmodel_device, algo,
                   algo_envs, writer, num_frames>>

\* line 70, the for loop is exhausted
EnvsDone ==
    /\ pc = "envs"
    /\ Len(envs) \notin Range(args_procs)
    /\ pc' = "preproc"
    /\ UNCHANGED <<argv, cuda_available, exc, envs, acmodel_device, algo,
                   algo_envs, writer, num_frames, i, trace>>

\* lines 77-82; envs[0] raises IndexError on an empty list
DefinePreprocessor ==
    /\ pc = "preproc"
    /\ IF Len(envs) = 0
       THEN /\ pc' = "error"
            /\ exc' = "IndexError"
            /\ UNCHANGED trace
       ELSE /\ pc' = "load_model"
            /\ trace' = Append(trace, Ev("utils.ObssPreprocessor", 0, envs[1].seed, envs[1].name))
            /\ UNCHANGED exc
    /\ UNCHANGED <<argv, cuda_available, envs, acmodel_device, algo,
                   algo_envs, writer, num_frames, i>>

\* lines 86-88
LoadModel ==
    /\ pc = "load_model"
    /\ trace' = trace \o <<Ev("utils.load_model", 0, 0, "cpu")>>
                       \o (IF cuda_available THEN <<Ev("acmodel.cuda", 0, 0, "gpu")>> ELSE << >>)
    /\ acmodel_device' = IF cuda_available THEN "gpu" ELSE "cpu"
    /\ pc' = "algo"
    /\ UNCHANGED <<argv, cuda_available, exc, envs, algo, algo_envs, writer,
                   num_frames, i>>

\* an unknown name falls through to PPO
AlgoClass_DefaultPPO(name) ==
    IF name = "a2c" THEN "torch_rl.A2CAlgo" ELSE "torch_rl.PPOAlgo"

\* lines 92-102: the class constructed for --algo, "" when none is
AlgoClass(name) ==
    IF name = "a2c" THEN "torch_rl.A2CAlgo"
    ELSE IF name = "ppo" THEN "torch_rl.PPOAlgo"
    ELSE ""

\* lines 92-102
DefineAlgo ==
    /\ pc = "algo"
    /\ IF AlgoClass(argv.algo) # ""
       THEN /\ algo' = AlgoClass(argv.algo)
            /\ algo_envs' = envs
            /\ trace' = Append(trace, Ev(AlgoClass(argv.algo), 0, Len(envs), acmodel_device))
            /\ pc' = "logger"
            /\ UNCHANGED exc
       ELSE /\ pc' = "error"
            /\ exc' = "ValueError"
            /\ UNCHANGED <<algo, algo_envs, trace>>
    /\ UNCHANGED <<argv, cuda_available, envs, acmodel_device, writer,
                   num_frames, i>>

\* the logger is created but the command line and the model are not logged
DefineLogger_NoBanner ==
    /\ pc = "logger"
    /\ writer' = ~argv.no_tb
    /\ trace' = trace
                \o <<Ev("utils.Logger", 0, 0, "")>>
                \o (IF ~argv.no_tb THEN <<Ev("SummaryWriter", 0, 0, "")>> ELSE << >>)
    /\ pc' = "train"
    /\ UNCHANGED <<argv, cuda_available, exc, envs, acmodel_device, algo,
                   algo_envs, num_frames, i>>

\* lines 106-114
DefineLogger ==
    /\ pc = "logger"
    /\ writer' = ~argv.no_tb
    /\ trace' = trace
                \o <<Ev("utils.Logger", 0, 0, "")>>
                \o (IF ~argv.no_tb THEN <<Ev("SummaryWriter", 0, 0, "")>> ELSE << >>)
                \o <<Ev("logger.log", 0, 0, "argv"), Ev("logger.log", 0, 0, "acmodel")>>
    /\ pc' = "train"
    /\ UNCHANGED <<argv, cuda_available, exc, envs, acmodel_device, algo,
                   algo_envs, num_frames, i>>

(* ---------------- training loop (lines 118-172) ---------------- *)

\* lines 118-120
TrainInit ==
    /\ pc = "train"
    /\ num_frames' = 0
    /\ i' = 0
    /\ pc' = "while"
    /\ UNCHANGED <<argv, cuda_available, exc, envs, acmodel_device, algo,
                   algo_envs, writer, trace>>

\* the bound is inclusive
LoopCondition_Inclusive == num_frames <= args_frames

\* line 122
LoopCondition == num_frames < args_frames

\* line 122, the loop is entered
WhileEnter ==
    /\ pc = "while"
    /\ LoopCondition
    /\ pc' = "update"
    /\ UNCHANGED <<argv, cuda_available, exc, envs, acmodel_device, algo,
                   algo_envs, writer, num_frames, i, trace>>

\* line 122, the loop is left
WhileExit ==
    /\ pc = "while"
    /\ ~LoopCondition
    /\ pc' = "done"
    /\ UNCHANGED <<argv, cuda_available, exc, envs, acmodel_device, algo,
                   algo_envs, writer, num_frames, i, trace>>

\* lines 125-130
Update ==
    /\ pc = "update"
    /\ \E f \in UpdateFrames :
          /\ trace' = Append(trace, Ev("algo.update_parameters", i + 1, f, acmodel_device))
          /\ num_frames' = num_frames + f
    /\ i' = i + 1
    /\ pc' = "log"
    /\ UNCHANGED <<argv, cuda_available, exc, envs, acmodel_device, algo,
                   algo_envs, writer>>

\* the interval is counted from the update before
LogDue_OffByOne == PyMod(i - 1, args_log_interval) = 0

\* line 134
LogDue == PyMod(i, args_log_interval) = 0

\* lines 134-161; i % 0 raises ZeroDivisionError
PrintLogs ==
    /\ pc = "log"
    /\ IF args_log_interval = 0
       THEN /\ pc' = "error"
            /\ exc' = "ZeroDivisionError"
            /\ UNCHANGED trace
       ELSE /\ pc' = "save"
            /\ UNCHANGED exc
            /\ trace' = trace
                 \o (IF LogDue THEN <<Ev("logger.log", i, num_frames, "U")>> ELSE << >>)
                 \o (IF LogDue /\ ~argv.no_tb THEN AddScalars ELSE << >>)
    /\ UNCHANGED <<argv, cuda_available, envs, acmodel_device, algo,
                   algo_envs, writer, num_frames, i>>

\* the interval is counted from the update before
SaveDue_OffByOne == args_save_interval > 0 /\ PyMod(i - 1, args_save_interval) = 0

\* line 165
SaveDue == args_save_interval > 0 /\ PyMod(i, args_save_interval) = 0

\* lines 168-169 and 171-172: the device of the model after acmodel.cpu() / acmodel.cuda()
MoveTo(target, device) == IF cuda_available THEN target ELSE device

\* the call that moves the model, if one is made
MoveCall(op, target) ==
    IF cuda_available THEN <<Ev(op, i, 0, target)>> ELSE << >>

\* lines 166-172, the calls of one checkpoint
Checkpoint ==
    <<Ev("vocab.save", i, 0, "")>>
    \o MoveCall("acmodel.cpu", "cpu")
    \o <<Ev("utils.save_model", i, 0, MoveTo("cpu", acmodel_device))>>
    \o MoveCall("acmodel.cuda", "gpu")

\* the model is left on the CPU after the save
DeviceAfterCheckpoint_NoReturn(device) == MoveTo("cpu", device)

\* lines 168-172: where the model is once the checkpoint is written
DeviceAfterCheckpoint(device) == MoveTo("gpu", MoveTo("cpu", device))

\* lines 165-172
Save ==
    /\ pc = "save"
    /\ IF SaveDue
       THEN /\ trace' = trace \o Checkpoint
            /\ acmodel_device' = DeviceAfterCheckpoint(acmodel_device)
       ELSE UNCHANGED <<trace, acmodel_device>>
    /\ pc' = "while"
    /\ UNCHANGED <<argv, cuda_available, exc, envs, algo, algo_envs, writer,
                   num_frames, i>>

Next ==
    \/ Seed
    \/ MakeEnv
    \/ EnvsDone
    \/ DefinePreprocessor
    \/ LoadModel
    \/ DefineAlgo
    \/ DefineLogger
    \/ TrainInit
    \/ WhileEnter
    \/ WhileExit
    \/ Update
    \/ PrintLogs
    \/ Save

Spec == Init /\ [][Next]_vars

\* the interpreter always executes the next statement of the script
FairSpec == Init /\ [][Next]_vars /\ WF_vars(Next)

TypeOK ==
    /\ pc \in {"seed", "envs", "preproc", "load_model", "algo", "logger",
               "train", "while", "update", "log", "save", "done", "error"}
    /\ exc \in {"none", "IndexError", "ValueError", "ZeroDivisionError"}
    /\ acmodel_device \in {"none", "cpu", "gpu"}
    /\ writer \in BOOLEAN
    /\ num_frames \in Nat
    /\ i \in Nat

(* ---------------- reading the trace ---------------- *)

UpdateOp == "algo.update_parameters"
AlgoOps == {"torch_rl.A2CAlgo", "torch_rl.PPOAlgo"}

\* the positions of the calls of op
Pos(op) == {p \in DOMAIN trace : trace[p].op = op}
Called(op) == \E p \in DOMAIN trace : trace[p].op = op

NumUpdates == Cardinality(Pos(UpdateOp))

\* the text lines of the training loop (line 142), not the two of line 113-114
LogLines == {p \in DOMAIN trace : trace[p].op = "logger.log" /\ trace[p].s = "U"}

Logged(k) ==
    \E p \in DOMAIN trace :
        trace[p].op = "logger.log" /\ trace[p].s = "U" /\ trace[p].i = k
Scalars(k) ==
    \E p \in DOMAIN trace : trace[p].op = "writer.add_scalar" /\ trace[p].i = k

\* vocab.save() of iteration k followed by save_model, only acmodel.cpu() in between
Checkpointed(k) ==
    \E p \in 1..(Len(trace) - 1) :
        /\ trace[p].op = "vocab.save" /\ trace[p].i = k
        /\ LET q == IF trace[p + 1].op = "acmodel.cpu" THEN p + 2 ELSE p + 1
           IN  q <= Len(trace) /\ trace[q].op = "utils.save_model" /\ trace[q].i = k

NoLoopCalls ==
    /\ ~Called(UpdateOp) /\ LogLines = {} /\ ~Called("writer.add_scalar")
    /\ ~Called("vocab.save") /\ ~Called("utils.save_model")

\* the frames reported by the updates 1..k among the first p calls
RECURSIVE SumUpdates(_, _)
SumUpdates(p, k) ==
    IF p = 0 THEN 0
    ELSE SumUpdates(p - 1, k)
         + (IF trace[p].op = UpdateOp /\ trace[p].i <= k THEN trace[p].n ELSE 0)

\* the position of a call in the script: stage, loop iteration, step of the iteration
InLoop(e) ==
    \/ e.op \in {UpdateOp, "writer.add_scalar", "vocab.save", "acmodel.cpu", "utils.save_model"}
    \/ e.op = "logger.log" /\ e.s = "U"
    \/ e.op = "acmodel.cuda" /\ e.i >= 1

Stage(e) ==
    IF InLoop(e) THEN 9
    ELSE IF e.op = "utils.seed" THEN 0
    ELSE IF e.op \in {"gym.make", "env.seed"} THEN 1
    ELSE IF e.op = "utils.ObssPreprocessor" THEN 2
    ELSE IF e.op \in {"utils.load_model", "acmodel.cuda"} THEN 3
    ELSE IF e.op \in AlgoOps THEN 4
    ELSE IF e.op = "utils.Logger" THEN 5
    ELSE IF e.op = "SummaryWriter" THEN 6
    ELSE IF e.s = "argv" THEN 7
    ELSE 8

Step(e) ==
    IF e.op = UpdateOp THEN 1
    ELSE IF e.op \in {"logger.log", "writer.add_scalar"} THEN 2
    ELSE 3

\* e is not later in the script than f
NotAfter(e, f) ==
    \/ Stage(e) < Stage(f)
    \/ /\ Stage(e) = Stage(f)
       /\ InLoop(e) => \/ e.i < f.i
                       \/ e.i = f.i /\ Step(e) <= Step(f)

\* a call f of the loop that comes right after the call e: an update opens the
\* next iteration, any other call belongs to the iteration of the call before it
FollowsInLoop(e, f) ==
    InLoop(f) =>
        IF f.op = UpdateOp
        THEN f.i = (IF InLoop(e) THEN e.i + 1 ELSE 1)
        ELSE InLoop(e) /\ e.i = f.i

PastAlgo == {"logger", "train", "while", "update", "log", "save", "done"}
Crashed(e) == pc = "error" /\ exc = e

(* ---------------- C1 ---------------- *)

\* C1: the calls of a run happen in the order of the script: utils.seed
\* before every gym.make, all procs environments built and seeded before the
\* preprocessor, the preprocessor before load_model, the model before the
\* algorithm object, the algorithm before the logger, the command line and
\* the model logged before the first update; in the loop update, log,
\* checkpoint of iteration k, all before the update of iteration k + 1.
C1_CallOrder ==
    /\ \A p \in 1..(Len(trace) - 1) : NotAfter(trace[p], trace[p + 1])
    /\ Called("gym.make") => Called("utils.seed")
    /\ Called("utils.ObssPreprocessor") =>
          /\ Cardinality(Pos("gym.make")) = args_procs
          /\ Cardinality(Pos("env.seed")) = args_procs
    /\ Called("utils.load_model") => Called("utils.ObssPreprocessor")
    /\ (\E op \in AlgoOps : Called(op)) => Called("utils.load_model")
    /\ Called("utils.Logger") => \E op \in AlgoOps : Called(op)
    /\ Called(UpdateOp) =>
          \E p, q \in Pos("logger.log") :
              /\ p < q
              /\ trace[p].s = "argv" /\ trace[q].s = "acmodel"
              /\ \E r \in Pos("utils.Logger") : r < p
    /\ \A p \in 1..(Len(trace) - 1) : FollowsInLoop(trace[p], trace[p + 1])

C1_Witness ==
    /\ pc = "done"
    /\ NumUpdates >= 2
    /\ Logged(1) /\ Checkpointed(1) /\ Logged(2) /\ Checkpointed(2)
    /\ Cardinality(Pos("gym.make")) = 2

(* ---------------- C2 ---------------- *)

\* iteration k of n has run to its end, or the run has ended in it
IterationOver(k, n) == k < n \/ pc \in {"while", "update", "done", "error"}

SaveExpected(k) == args_save_interval > 0 /\ k % args_save_interval = 0

\* a save belongs to a checkpoint of an update that was made, one per update
SavesWellFormed ==
    \A p \in DOMAIN trace :
        trace[p].op \in {"vocab.save", "utils.save_model"} =>
            /\ trace[p].i >= 1
            /\ Checkpointed(trace[p].i)
            /\ \A q \in DOMAIN trace :
                  (trace[q].op = trace[p].op /\ trace[q].i = trace[p].i) => q = p

\* C2 as stated: a checkpoint (vocab.save then save_model) is written after
\* update k iff save_interval > 0 and k is a multiple of save_interval.
C2_Original ==
    /\ SavesWellFormed
    /\ LET n == NumUpdates
       IN  \A k \in 1..n :
               IterationOver(k, n) => (Checkpointed(k) <=> SaveExpected(k))

\* C2 (amended): a checkpoint (vocab.save then save_model) is written after
\* update k iff save_interval > 0, k is a multiple of save_interval and
\* log_interval # 0; with log_interval = 0 the first iteration raises
\* ZeroDivisionError at its log test and no checkpoint is ever written.
C2_Checkpoints ==
    /\ SavesWellFormed
    /\ LET n == NumUpdates
       IN  /\ \A k \in 1..n :
                 IterationOver(k, n) =>
                     (Checkpointed(k) <=> (SaveExpected(k) /\ args_log_interval # 0))
           /\ args_log_interval = 0 =>
                 /\ n <= 1
                 /\ pc # "save"
                 /\ pc = "done" => n = 0
                 /\ (n = 1 /\ pc # "log") => Crashed("ZeroDivisionError")

C2_Witness ==
    /\ pc = "done"
    /\ args_save_interval = 2
    /\ NumUpdates = 4
    /\ ~Checkpointed(1) /\ Checkpointed(2) /\ ~Checkpointed(3) /\ Checkpointed(4)

(* ---------------- C3 ---------------- *)

\* the log step of iteration k of n has been executed
LogStepOver(k, n) == k < n \/ pc \in {"save", "while", "update", "done"}

\* C3: for log_interval >= 1 a text line is logged after update k iff k is a
\* multiple of log_interval; it reports k and the frames of the updates 1..k;
\* scalars are written for k iff the line is and --no-tb was not given; with
\* --no-tb no SummaryWriter is created and add_scalar is never called.
C3_Logging ==
    /\ args_log_interval >= 1 =>
          /\ LET n == NumUpdates
             IN  \A k \in 1..n :
                     LogStepOver(k, n) =>
                         /\ Logged(k) <=> (k % args_log_interval = 0)
                         /\ Scalars(k) <=> (Logged(k) /\ ~argv.no_tb)
          /\ \A p \in LogLines :
                /\ p > 1
                /\ trace[p - 1].op = UpdateOp
                /\ trace[p - 1].i = trace[p].i
                /\ trace[p].n = SumUpdates(p, trace[p].i)
          /\ \A p \in Pos("writer.add_scalar") :
                /\ Logged(trace[p].i)
                /\ trace[p].s = "frames" => trace[p].n = SumUpdates(p, trace[p].i)
    /\ argv.no_tb =>
          /\ ~Called("SummaryWriter")
          /\ ~Called("writer.add_scalar")
          /\ ~writer
    /\ Called("writer.add_scalar") => writer /\ Called("SummaryWriter")

C3_Witness ==
    /\ pc = "done"
    /\ args_log_interval = 2
    /\ ~argv.no_tb
    /\ NumUpdates = 3
    /\ ~Logged(1) /\ Logged(2) /\ Scalars(2) /\ ~Logged(3) /\ ~Scalars(3)
    /\ num_frames > 3

(* ---------------- C4 ---------------- *)

\* the while loop has been left, by its condition or by an exception of its body
LoopLeft == pc = "done" \/ Crashed("ZeroDivisionError")

\* C4 as stated: update_parameters is called only with num_frames < frames
\* (frames <= 0: no update, log or checkpoint), and the loop ends in a state
\* with num_frames >= frames.
C4_Original ==
    /\ pc = "update" => num_frames < args_frames
    /\ args_frames <= 0 => NoLoopCalls
    /\ LoopLeft => num_frames >= args_frames

C4_Safe ==
    /\ pc = "update" => num_frames < args_frames
    /\ args_frames <= 0 => NoLoopCalls
    /\ pc = "done" => num_frames >= args_frames /\ (NumUpdates > 0 => args_log_interval # 0)
    /\ Crashed("ZeroDivisionError") =>
          args_log_interval = 0 /\ args_frames > 0 /\ NumUpdates = 1

\* C4 (amended): update_parameters is called only with num_frames < frames
\* (frames <= 0: no update, log or checkpoint); every update reporting at
\* least one frame, the loop ends after finitely many updates, either by its
\* condition in a state with num_frames >= frames, or, when log_interval = 0
\* and frames > 0, by the ZeroDivisionError of the first iteration's log test.
C4_FramesBound == []C4_Safe /\ ((pc = "while") ~> LoopLeft)

C4_Witness ==
    /\ pc = "done"
    /\ NumUpdates >= 2
    /\ args_frames = MaxFrames
    /\ num_frames > args_frames

(* ---------------- C5 ---------------- *)

AlgoSelected(name, class, other) ==
    argv.algo = name =>
        /\ ~Called(other)
        /\ algo \in {"none", class}
        /\ (pc \in PastAlgo \/ Crashed("ZeroDivisionError")) =>
               algo = class /\ Cardinality(Pos(class)) = 1

NothingAfterAlgoError ==
    /\ pc \notin PastAlgo
    /\ algo = "none" /\ ~writer
    /\ \A op \in AlgoOps \cup {"utils.Logger", "SummaryWriter", "logger.log"} : ~Called(op)
    /\ NoLoopCalls

SetupBuilt ==
    /\ Len(envs) = args_procs
    /\ Called("utils.ObssPreprocessor")
    /\ Called("utils.load_model")

\* C5 as stated: a2c constructs A2CAlgo only, ppo PPOAlgo only, any other
\* value raises ValueError, after the environments, preprocessor and model
\* were built and with nothing constructed or run afterwards.
C5_Original ==
    /\ AlgoSelected("a2c", "torch_rl.A2CAlgo", "torch_rl.PPOAlgo")
    /\ AlgoSelected("ppo", "torch_rl.PPOAlgo", "torch_rl.A2CAlgo")
    /\ argv.algo \notin {"a2c", "ppo"} =>
          /\ NothingAfterAlgoError
          /\ pc = "error" => exc = "ValueError" /\ SetupBuilt

\* C5 (amended): a2c constructs A2CAlgo only, ppo PPOAlgo only; any other
\* value raises ValueError when procs >= 1, after the environments,
\* preprocessor and model were built, while with procs <= 0 the run has
\* already failed with IndexError at the preprocessor; in both cases no
\* algorithm, logger or writer is created and no update, log line or
\* checkpoint happens.
C5_AlgoSelection ==
    /\ AlgoSelected("a2c", "torch_rl.A2CAlgo", "torch_rl.PPOAlgo")
    /\ AlgoSelected("ppo", "torch_rl.PPOAlgo", "torch_rl.A2CAlgo")
    /\ argv.algo \notin {"a2c", "ppo"} =>
          /\ NothingAfterAlgoError
          /\ pc = "error" =>
                IF args_procs >= 1
                THEN exc = "ValueError" /\ SetupBuilt
                ELSE exc = "IndexError" /\ ~Called("utils.ObssPreprocessor")
                     /\ ~Called("utils.load_model")

C5_Witness ==
    /\ argv.algo \notin {"a2c", "ppo"}
    /\ Crashed("ValueError")
    /\ Len(envs) = 2
    /\ Called("utils.load_model")

(* ---------------- C6 ---------------- *)

\* C6: without --frames the loop runs until num_frames reaches the default
\* of the help text, 10e7 = 100,000,000.
C6_HelpDefault ==
    (~argv.frames[1] /\ pc = "done") => num_frames >= FramesHelpDefault

(* ---------------- C7 ---------------- *)

EnvsBuilt == pc \notin {"seed", "envs"}

EnvsSeeded ==
    /\ \A k \in 1..Len(envs) :
          /\ envs[k].name = argv.env
          /\ envs[k].seed = args_seed + (k - 1)
    /\ \A j, k \in 1..Len(envs) : j # k => envs[j].seed # envs[k].seed
    /\ \A p \in Pos("utils.seed") : Len(envs) >= 1 => envs[1].seed = trace[p].n
    /\ \A p \in Pos("gym.make") :
          /\ trace[p].s = argv.env
          /\ p < Len(trace)
          /\ trace[p + 1] = Ev("env.seed", trace[p].i, args_seed + trace[p].i, argv.env)
    /\ Cardinality(Pos("gym.make")) = Len(envs)
    /\ algo # "none" => algo_envs = envs /\ Len(algo_envs) >= 1

NoEnvFails ==
    /\ envs = << >>
    /\ pc \in {"seed", "envs", "preproc", "error"}
    /\ pc = "error" => exc = "IndexError"
    /\ ~Called("utils.ObssPreprocessor") /\ ~Called("utils.load_model")

\* C7 as stated: exactly procs environments are built, the k-th seeded with
\* seed + k, in order; with procs = 0 the preprocessor construction fails.
C7_Original ==
    /\ EnvsBuilt => Len(envs) = args_procs
    /\ EnvsSeeded
    /\ args_procs = 0 => NoEnvFails

Max0(n) == IF n > 0 THEN n ELSE 0

\* C7 (amended): exactly max(procs, 0) environments are built, all from
\* --env, the k-th (k = 0 .. procs-1) seeded with seed + k before it is
\* appended, so the seeds are pairwise distinct and the first is the global
\* seed; the algorithm gets the list in that order.  With procs <= 0 the
\* list is empty and the preprocessor construction fails with IndexError
\* before any model is loaded.
C7_Environments ==
    /\ EnvsBuilt => Len(envs) = Max0(args_procs)
    /\ Len(envs) <= Max0(args_procs)
    /\ EnvsSeeded
    /\ args_procs <= 0 => NoEnvFails

C7_Witness ==
    /\ pc = "done"
    /\ argv.seed = Given(5)
    /\ args_procs = 2
    /\ algo_envs = <<[name |-> argv.env, seed |-> 5], [name |-> argv.env, seed |-> 6]>>

(* ---------------- C8 ---------------- *)

\* C8: with CUDA the model is on the GPU at every update and on the CPU at
\* every save_model, moved to the CPU right before the save and back right
\* after it; without CUDA the model is never moved.
C8_Device ==
    /\ cuda_available =>
          /\ \A p \in Pos(UpdateOp) : trace[p].s = "gpu"
          /\ pc = "update" => acmodel_device = "gpu"
          /\ \A p \in Pos("utils.save_model") :
                /\ trace[p].s = "cpu"
                /\ trace[p - 1].op = "acmodel.cpu"
                /\ p < Len(trace) /\ trace[p + 1].op = "acmodel.cuda"
          /\ \A p \in Pos("acmodel.cpu") :
                p < Len(trace) /\ trace[p + 1].op = "utils.save_model"
    /\ ~cuda_available =>
          /\ ~Called("acmodel.cuda") /\ ~Called("acmodel.cpu")
          /\ acmodel_device \in {"none", "cpu"}

C8_Witness ==
    /\ cuda_available
    /\ pc = "done"
    /\ NumUpdates = 3
    /\ Checkpointed(1) /\ Checkpointed(2)
    /\ \A p \in Pos(UpdateOp) : trace[p].s = "gpu"

====
